---- MODULE Spec2Model ----
(***************************************************************************)
(* Star Battle solver of pytudes/ipynb/StarBattle.ipynb: depth-first       *)
(* search (search, solve) over constraint propagation (put_star,           *)
(* put_blank), with the board model (make_board), the adjacency function   *)
(* (neighbors) and the validator (is_solution).                            *)
(*                                                                         *)
(* A cell is an integer in 0 .. N*N-1, a unit is a set of cells, a picture *)
(* is the sequence of its characters (a label is a positive integer, 0 is  *)
(* a whitespace character).  Propagation is modelled statement by          *)
(* statement with an explicit call stack, so that every call and every     *)
(* return of put_star and put_blank is a state; search is modelled with    *)
(* the stack of its nested generators.                                     *)
(***************************************************************************)
EXTENDS Integers, Sequences, FiniteSets, TLC

VARIABLES
  call,     \* the top-level operation under way and its arguments
  board,    \* the Board the operation works on
  ord,      \* the order in which this run iterates over sets
  sstack,   \* the nested generators of search, innermost last
  work,     \* the State that propagation mutates (guess_state of line 272)
  pstack,   \* the call stack of put_star / put_blank, innermost last
  ret,      \* the value returned by the call that has just returned
  yielded,  \* the stars of the states yielded by search so far, in order
  status,   \* of the outermost generator: running, exhausted or KeyError
  solved,   \* the outcome of solve(board)
  result    \* the value returned by neighbors / is_solution

vars == <<call, board, ord, sstack, work, pstack, ret, yielded, status, solved, result>>

(***************************************************************************)
(* Bounds of the model.                                                    *)
(***************************************************************************)
\* stars-per-unit values 0 .. MaxS are tried on every small picture
MaxS == 2
\* number of set iteration orders a run may draw
NumOrders == 3
\* neighbors is applied on boards of side 1 .. MaxN
MaxN == 6
\* direct calls of put_star / put_blank start from states with at most
\* this many resolved (star or blank) cells
MaxResolved == 2
\* is_solution is applied to sets of at most this many stars
MaxStars == 4

(***************************************************************************)
(* Iteration order of a Python set.  The language leaves it unspecified;   *)
(* a run draws one of NumOrders total orders: ascending, descending, or a  *)
(* scrambled one.                                                          *)
(***************************************************************************)
Rank(o, c) ==
  IF o = 0 THEN c
  ELSE IF o = 1 THEN 0 - c
  ELSE (c * (2 * o + 1) + o) % 67

First(set, o) == CHOOSE c \in set : \A d \in set : Rank(o, c) <= Rank(o, d)

RECURSIVE InOrder(_, _)
InOrder(set, o) ==
  IF set = {} THEN <<>>
  ELSE LET c == First(set, o) IN <<c>> \o InOrder(set \ {c}, o)

(***************************************************************************)
(* Board model.                                                            *)
(***************************************************************************)
\* mutant of indexes: only the first index where item appears
indexes_first(sequence, item) ==
  {i \in 0 .. Len(sequence) - 1 :
     sequence[i + 1] = item /\ \A j \in 1 .. i : sequence[j] # item}

\* indexes(sequence, item): all (0-based) indexes where item appears
indexes(sequence, item) == {i \in 0 .. Len(sequence) - 1 : sequence[i + 1] = item}

\* ''.join(picture.split()): the picture without its whitespace characters
strip(picture) == LET nonblank(ch) == ch # 0 IN SelectSeq(picture, nonblank)

\* int(len(pic) ** 0.5)
side_of(len) == CHOOSE n \in 0 .. len : n * n <= len /\ len < (n + 1) * (n + 1)

\* the assertion of make_board: the picture is a square
square(picture) == LET len == Len(strip(picture)) IN len = side_of(len) * side_of(len)

\* lines 88-100; o is the order in which set(pic) is iterated
make_board(S, picture, o) ==
  LET pic   == strip(picture)
      N     == side_of(Len(pic))
      cols  == [c \in 1 .. N |-> {N * r + (c - 1) : r \in 0 .. N - 1}]
      rows  == [r \in 1 .. N |-> {N * (r - 1) + c : c \in 0 .. N - 1}]
      chars == InOrder({pic[i] : i \in 1 .. Len(pic)}, o)
      boxes == [k \in 1 .. Len(chars) |-> indexes(pic, chars[k])]
  IN [N |-> N, S |-> S, units |-> cols \o rows \o boxes, pic |-> pic]

\* board.units_for[cell]: the units that hold cell, in the order of board.units
units_for(b, cell) == LET holds(u) == cell \in u IN SelectSeq(b.units, holds)

cells_of(b) == 0 .. b.N * b.N - 1

(***************************************************************************)
(* Adjacency.                                                              *)
(***************************************************************************)
\* mutant of neighbors: the board edges are not tested
neighbors_wrap(cell, N) ==
  {cell + dx + dy :
     <<dx, dy>> \in {p \in {0, 1, 0 - 1} \X {0, N, 0 - N} : p[1] # 0 \/ p[2] # 0}}

\* lines 232-237
neighbors(cell, N) ==
  LET dxs == {0, IF cell % N # N - 1 THEN 1 ELSE 0, IF cell % N # 0 THEN 0 - 1 ELSE 0}
      dys == {0, IF cell + N < N * N THEN N ELSE 0, IF cell >= N THEN 0 - N ELSE 0}
  IN {cell + dx + dy : <<dx, dy>> \in {p \in dxs \X dys : p[1] # 0 \/ p[2] # 0}}

count_stars(unit, state) == Cardinality(unit \cap state.stars)

(***************************************************************************)
(* States.                                                                 *)
(***************************************************************************)
\* mutant of by_len: the units are left in the order of the board
by_len_unsorted(units, k, max) == units

\* sorted(board.units, key=len): a stable sort by size
RECURSIVE by_len(_, _, _)
by_len(units, k, max) ==
  LET lens == {Cardinality(units[i]) : i \in 1 .. Len(units)} \cap (k .. max)
  IN IF lens = {} THEN <<>>
     ELSE LET least == CHOOSE n \in lens : \A m \in lens : n <= m
              has_len(u) == Cardinality(u) = least
          IN SelectSeq(units, has_len) \o by_len(units, least + 1, max)

\* a State is a tuple of three mutable containers: a list and two sets.
\* Its field ref holds the identity (address) of each of them; the fields
\* units, stars and unknowns hold their contents.
NewContainers(a) == [units |-> a, stars |-> a, unknowns |-> a]

\* what State st holds after the containers of State old have been mutated
\* to the contents of new: the containers that st shares with old change
Aliased(st, old, new) ==
  [st EXCEPT !.units    = IF st.ref.units = old.ref.units THEN new.units ELSE @,
             !.stars    = IF st.ref.stars = old.ref.stars THEN new.stars ELSE @,
             !.unknowns = IF st.ref.unknowns = old.ref.unknowns THEN new.unknowns ELSE @]

\* the first State of a run: its containers are the objects at address 0
initial_state(b) ==
  [units    |-> by_len(b.units, 0, b.N * b.N),
   stars    |-> {},
   unknowns |-> cells_of(b),
   ref      |-> NewContainers(0)]

\* mutant of copy_state: the State itself in place of a copy
copy_state_alias(s, a) == s

\* line 299: s.units[:], set(s.stars) and set(s.unknowns) are new objects,
\* allocated at address a, with the contents of the old ones
copy_state(s, a) ==
  [units |-> s.units, stars |-> s.stars, unknowns |-> s.unknowns,
   ref |-> NewContainers(a)]

\* mutant of is_solution: the adjacency test left out
is_solution_units(b, stars) ==
  \A k \in 1 .. Len(b.units) : Cardinality(stars \cap b.units[k]) = b.S

\* lines 316-321
is_solution(b, stars) ==
  /\ \A k \in 1 .. Len(b.units) : Cardinality(stars \cap b.units[k]) = b.S
  /\ \A c1 \in stars : \A c2 \in stars : c1 \notin neighbors(c2, b.N)

(***************************************************************************)
(* The call stack of propagation.                                          *)
(***************************************************************************)
NoRet == [fn |-> "", cell |-> 0 - 1, val |-> "none", line |-> 0]

Frame(fn, cell) == [fn |-> fn, cell |-> cell, pc |-> "enter", rem |-> {}, ui |-> 0]

Top == pstack[Len(pstack)]

Running(fn, pc) ==
  /\ pstack # <<>>
  /\ Top.fn = fn
  /\ Top.pc = pc

SetTop(f) == [pstack EXCEPT ![Len(pstack)] = f]

\* the return statement at `line` of the innermost call, with value val:
\* "state" (the State, truthy), "None", or "KeyError" (an exception leaves)
Return(val, line) ==
  /\ pstack' = SubSeq(pstack, 1, Len(pstack) - 1)
  /\ ret' = [fn |-> Top.fn, cell |-> Top.cell, val |-> val, line |-> line]

\* the generators of search after the containers of State old have been
\* mutated to the contents of new
Mutated(stack, old, new) ==
  [i \in 1 .. Len(stack) |-> [stack[i] EXCEPT !.state = Aliased(@, old, new)]]

\* line 194: the cell already holds a star
already_star(state, cell) == cell \in state.stars

\* mutant of already_resolved: the guard of put_blank tests for a star
already_resolved_star(state, cell) == cell \in state.stars

\* line 209: the cell is already resolved
already_resolved(state, cell) == cell \notin state.unknowns

\* mutant of under_quota: the failure test of put_blank left out
under_quota_never(b, state, unit) == FALSE

\* line 215: the unit can no longer reach S stars
under_quota(b, state, unit) ==
  count_stars(unit, state) + Cardinality(unit \cap state.unknowns) < b.S

\* mutant of truthy: all() goes on past a put_star that returned None
truthy_none(val) == val \in {"state", "None"}

\* line 218: all() goes on to the next cell while put_star returns a State
truthy(val) == val = "state"

\* mutant of zero_slack: no cell is ever forced
zero_slack_never(b, state, unit) == FALSE

\* line 217: the unit needs every one of its unknown cells to reach S stars
zero_slack(b, state, unit) ==
  count_stars(unit, state) + Cardinality(unit \cap state.unknowns) = b.S

\* mutant of star_neighbor: a star next to the new star is not noticed
star_neighbor_never(state, c) == FALSE

\* line 202: the neighbor c holds a star
star_neighbor(state, c) == c \in state.stars

\* mutant of add_star: the cell is not removed from the unknowns
add_star_only(state, cell) == [state EXCEPT !.stars = @ \cup {cell}]

\* lines 196-197: state.unknowns.remove(cell); state.stars.add(cell)
add_star(state, cell) ==
  [state EXCEPT !.unknowns = @ \ {cell}, !.stars = @ \cup {cell}]

\* mutant of remove_unknown: the cell stays unknown
remove_unknown_keep(state, cell) == state

\* line 211: state.unknowns.remove(cell)
remove_unknown(state, cell) == [state EXCEPT !.unknowns = @ \ {cell}]

\* mutant of over_quota: the test of put_star for too many stars left out
over_quota_never(b, state, cell) == FALSE

\* lines 198-200: some unit of cell holds more than S stars
over_quota(b, state, cell) ==
  \E k \in 1 .. Len(units_for(b, cell)) :
    count_stars(units_for(b, cell)[k], state) > b.S

\* lines 194-200 of put_star
PutStarEnter ==
  /\ Running("put_star", "enter")
  /\ ret.val = "none"
  /\ LET cell == Top.cell IN
     IF already_star(work, cell)
     THEN Return("state", 195) /\ UNCHANGED work
     ELSE IF cell \notin work.unknowns
     THEN Return("KeyError", 196) /\ UNCHANGED work
     ELSE LET st == add_star(work, cell)
          IN /\ work' = st
             /\ IF over_quota(board, st, cell)
                THEN Return("None", 200)
                ELSE /\ pstack' = SetTop([Top EXCEPT !.pc = "loop",
                                                     !.rem = neighbors(cell, board.N)])
                     /\ UNCHANGED ret
  /\ sstack' = Mutated(sstack, work, work')
  /\ UNCHANGED <<call, board, ord, yielded, status, solved, result>>

\* lines 201-204 of put_star: the next neighbor, or the end of the loop
PutStarLoop ==
  /\ Running("put_star", "loop")
  /\ ret.val = "none"
  /\ IF Top.rem = {}
     THEN Return("state", 204)
     ELSE LET c == First(Top.rem, ord) IN
          IF star_neighbor(work, c)
          THEN Return("None", 203)
          ELSE /\ pstack' = Append(SetTop([Top EXCEPT !.pc = "wait"]), Frame("put_blank", c))
               /\ UNCHANGED ret
  /\ UNCHANGED <<call, board, ord, sstack, work, yielded, status, solved, result>>

\* line 202 of put_star: put_blank(c, board, state) has returned
PutStarResume ==
  /\ Running("put_star", "wait")
  /\ ret.val # "none"
  /\ IF ret.val = "state"
     THEN /\ pstack' = SetTop([Top EXCEPT !.pc = "loop", !.rem = @ \ {ret.cell}])
          /\ ret' = NoRet
     ELSE IF ret.val = "None"
     THEN Return("None", 203)
     ELSE Return("KeyError", 202)
  /\ UNCHANGED <<call, board, ord, sstack, work, yielded, status, solved, result>>

\* lines 209-211 of put_blank
PutBlankEnter ==
  /\ Running("put_blank", "enter")
  /\ ret.val = "none"
  /\ LET cell == Top.cell IN
     IF already_resolved(work, cell)
     THEN Return("state", 210) /\ UNCHANGED work
     ELSE /\ work' = remove_unknown(work, cell)
          /\ pstack' = SetTop([Top EXCEPT !.pc = "units", !.ui = 1])
          /\ UNCHANGED ret
  /\ sstack' = Mutated(sstack, work, work')
  /\ UNCHANGED <<call, board, ord, yielded, status, solved, result>>

\* lines 212-217 and 220 of put_blank: the next unit of the cell
PutBlankUnit ==
  /\ Running("put_blank", "units")
  /\ ret.val = "none"
  /\ LET us == units_for(board, Top.cell) IN
     IF Top.ui > Len(us)
     THEN Return("state", 220)
     ELSE LET unit     == us[Top.ui]
              s        == count_stars(unit, work)
              unknowns == unit \cap work.unknowns
          IN IF under_quota(board, work, unit)
             THEN Return("None", 216)
             ELSE /\ pstack' = SetTop(IF zero_slack(board, work, unit)
                                      THEN [Top EXCEPT !.pc = "forced", !.rem = unknowns]
                                      ELSE [Top EXCEPT !.ui = @ + 1])
                  /\ UNCHANGED ret
  /\ UNCHANGED <<call, board, ord, sstack, work, yielded, status, solved, result>>

\* line 218 of put_blank: the next cell of all(put_star(c, ...) for c in unknowns)
PutBlankForced ==
  /\ Running("put_blank", "forced")
  /\ ret.val = "none"
  /\ pstack' = IF Top.rem = {}
               THEN SetTop([Top EXCEPT !.pc = "units", !.ui = @ + 1])
               ELSE Append(SetTop([Top EXCEPT !.pc = "wait"]),
                           Frame("put_star", First(Top.rem, ord)))
  /\ UNCHANGED <<call, board, ord, sstack, work, ret, yielded, status, solved, result>>

\* lines 218-219 of put_blank: put_star(c, board, state) has returned
PutBlankResume ==
  /\ Running("put_blank", "wait")
  /\ ret.val # "none"
  /\ IF truthy(ret.val)
     THEN /\ pstack' = SetTop([Top EXCEPT !.pc = "forced", !.rem = @ \ {ret.cell}])
          /\ ret' = NoRet
     ELSE IF ret.val = "None"
     THEN Return("None", 219)
     ELSE Return("KeyError", 218)
  /\ UNCHANGED <<call, board, ord, sstack, work, yielded, status, solved, result>>

Propagate ==
  \/ PutStarEnter
  \/ PutStarLoop
  \/ PutStarResume
  \/ PutBlankEnter
  \/ PutBlankUnit
  \/ PutBlankForced
  \/ PutBlankResume

(***************************************************************************)
(* Depth-first search.  A frame is one activation of the generator search: *)
(* its state, its position and the candidates its for loop has not tried.  *)
(***************************************************************************)
SFrame(state) == [state |-> state, pc |-> "start", cands |-> {}]

STop == sstack[Len(sstack)]

Searching(pc) ==
  /\ call.op = "solve"
  /\ status = "running"
  /\ sstack # <<>>
  /\ STop.pc = pc
  /\ pstack = <<>>

SetSTop(f) == [sstack EXCEPT ![Len(sstack)] = f]

\* the addresses of the containers of the States that generators hold
LiveAddresses ==
  UNION {{sstack[i].state.ref.units, sstack[i].state.ref.stars,
          sstack[i].state.ref.unknowns} : i \in 1 .. Len(sstack)}

\* the address at which an allocation puts new objects: the lowest free one
FreshAddress ==
  CHOOSE a \in 0 .. 3 * Len(sstack) :
    /\ a \notin LiveAddresses
    /\ \A m \in 0 .. a - 1 : m \in LiveAddresses

\* mutant of head_filled: < for == in the condition of the while loop
head_filled_lt(b, state) ==
  /\ state.units # <<>>
  /\ count_stars(Head(state.units), state) < b.S

\* mutant of head_filled: <= for == in the condition of the while loop
head_filled_le(b, state) ==
  /\ state.units # <<>>
  /\ count_stars(Head(state.units), state) <= b.S

\* line 266: the condition of the while loop
head_filled(b, state) ==
  /\ state.units # <<>>
  /\ count_stars(Head(state.units), state) = b.S

\* mutant of candidates: the stars of the head unit are guessed again
candidates_with_stars(state) ==
  Head(state.units) \cap (state.unknowns \cup state.stars)

\* mutant of candidates: only the first candidate in iteration order
candidates_first(state) ==
  LET cs == Head(state.units) \cap state.unknowns
  IN IF cs = {} THEN {} ELSE {First(cs, ord)}

\* mutant of candidates: the loop stops after its first guess
candidates_one(state) ==
  LET cs == Head(state.units) \cap state.unknowns
  IN {c \in cs : \A d \in cs : c <= d}

\* line 271: the cells the for loop guesses
candidates(state) == Head(state.units) \cap state.unknowns

\* mutant of next_on_empty: next(..., None), a default in place of the error
next_on_empty_none == "None"

\* next(...) of line 260 on a generator that ends without a yield
next_on_empty == "StopIteration"

\* line 260: solve takes the first state that search yields
solve_first(stars) ==
  IF solved.outcome = "pending" THEN [outcome |-> "returned", stars |-> stars] ELSE solved

solve_end(outcome) ==
  IF solved.outcome = "pending" THEN [outcome |-> outcome, stars |-> {}] ELSE solved

\* lines 266-267: state.units.pop(0)
SearchDiscard ==
  /\ Searching("start")
  /\ head_filled(board, STop.state)
  /\ LET popped == [STop.state EXCEPT !.units = Tail(@)] IN
       /\ sstack' = Mutated(sstack, STop.state, popped)
       /\ work' = Aliased(work, STop.state, popped)
  /\ UNCHANGED <<call, board, ord, pstack, ret, yielded, status, solved, result>>

\* lines 268-269: yield state
SearchYield ==
  /\ Searching("start")
  /\ STop.state.units = <<>>
  /\ sstack' = SetSTop([STop EXCEPT !.pc = "yielded"])
  /\ yielded' = Append(yielded, STop.state.stars)
  /\ solved' = solve_first(STop.state.stars)
  /\ UNCHANGED <<call, board, ord, work, pstack, ret, status, result>>

\* line 271: the for loop starts over state.units[0] & state.unknowns
SearchBegin ==
  /\ Searching("start")
  /\ STop.state.units # <<>>
  /\ ~ head_filled(board, STop.state)
  /\ sstack' = SetSTop([STop EXCEPT !.pc = "loop",
                                    !.cands = candidates(STop.state)])
  /\ UNCHANGED <<call, board, ord, work, pstack, ret, yielded, status, solved, result>>

\* line 272: put_star(c, board, copy_state(state)) is called
SearchGuess ==
  /\ Searching("loop")
  /\ STop.cands # {}
  /\ ret.val = "none"
  /\ LET c == First(STop.cands, ord) IN
       /\ work' = copy_state(STop.state, FreshAddress)
       /\ pstack' = <<Frame("put_star", c)>>
       /\ sstack' = SetSTop([STop EXCEPT !.pc = "guess", !.cands = @ \ {c}])
  /\ UNCHANGED <<call, board, ord, ret, yielded, status, solved, result>>

\* lines 272-274: the guess has returned; recurse if it is not None
SearchGuessDone ==
  /\ Searching("guess")
  /\ ret.val # "none"
  /\ ret' = NoRet
  /\ IF ret.val = "state"
     THEN /\ sstack' = Append(SetSTop([STop EXCEPT !.pc = "loop"]), SFrame(work))
          /\ UNCHANGED <<status, solved>>
     ELSE IF ret.val = "None"
     THEN /\ sstack' = SetSTop([STop EXCEPT !.pc = "loop"])
          /\ UNCHANGED <<status, solved>>
     ELSE /\ sstack' = <<>>
          /\ status' = "KeyError"
          /\ solved' = solve_end("KeyError")
  /\ UNCHANGED <<call, board, ord, work, pstack, yielded, result>>

\* the generator ends: after its yield, or when its for loop is over
SearchReturn ==
  /\ \/ Searching("yielded")
     \/ Searching("loop") /\ STop.cands = {}
  /\ sstack' = SubSeq(sstack, 1, Len(sstack) - 1)
  /\ status' = IF Len(sstack) = 1 THEN "exhausted" ELSE status
  /\ solved' = IF Len(sstack) = 1 THEN solve_end(next_on_empty) ELSE solved
  /\ UNCHANGED <<call, board, ord, work, pstack, ret, yielded, result>>

Search ==
  \/ SearchDiscard
  \/ SearchYield
  \/ SearchBegin
  \/ SearchGuess
  \/ SearchGuessDone
  \/ SearchReturn

(***************************************************************************)
(* The boards of the model: every small picture with every S in 0 .. MaxS, *)
(* the 5x5 board of the notebook, and 8x8 boards with two stars per unit   *)
(* (8 is the least side on which S = 2 has a solution).                    *)
(***************************************************************************)
SmallPictures ==
  { <<1>>,
    <<1, 1,
      2, 2>>,
    <<2, 1,
      3, 3>>,
    <<1, 1, 1,
      2, 2, 2,
      3, 3, 3>>,
    <<1, 2, 2,
      2, 2, 2,
      3, 3, 3>>,
    <<1, 1, 2, 2,
      1, 1, 2, 2,
      3, 3, 4, 4,
      3, 3, 4, 4>>,
    <<1, 1, 1, 2,
      1, 2, 2, 2,
      3, 3, 4, 4,
      3, 3, 4, 4>>,
    <<1, 2, 2, 2,
      2, 2, 2, 2,
      3, 3, 3, 3,
      4, 4, 4, 4>>,
    <<1, 1, 1, 2,
      1, 1, 3, 2,
      4, 4, 3, 2,
      4, 4, 3, 3>>,
    <<1, 1, 2, 2,
      1, 1, 2, 2,
      3, 3, 3, 3,
      3, 3, 3, 3>>,
    <<1, 1, 2, 2,
      1, 5, 2, 2,
      3, 3, 4, 4,
      3, 3, 4, 4>> }

\* lines 120-126; ',' is 1, '+' is 2, "'" is 3, ':' is 4, '.' is 5, newline is 0
picture5x5 ==
  <<0, 1, 2, 3, 3, 3,
    0, 1, 2, 4, 4, 3,
    0, 1, 2, 4, 4, 5,
    0, 1, 5, 5, 5, 5,
    0, 1, 5, 5, 5, 5, 0>>

picture8x8 ==
  <<2, 4, 1, 8, 2, 2, 2, 2,
    2, 1, 1, 2, 2, 3, 1, 7,
    1, 6, 2, 5, 2, 1, 1, 2,
    2, 1, 2, 2, 1, 5, 1, 6,
    2, 1, 1, 1, 1, 1, 2, 1,
    2, 2, 2, 2, 1, 2, 3, 2,
    2, 1, 7, 1, 2, 1, 2, 2,
    1, 1, 2, 2, 8, 2, 4, 2>>

\* picture8x8 with one of the two cells of box 3 given to box 2: 8 boxes,
\* one of them of a single cell
picture8x8_single ==
  [i \in 1 .. 64 |-> IF i = 47 THEN 2 ELSE picture8x8[i]]

Inputs ==
  {[S |-> s, picture |-> p] : s \in 0 .. MaxS, p \in SmallPictures}
    \cup {[S |-> 1, picture |-> picture5x5], [S |-> 2, picture |-> picture8x8],
          [S |-> 2, picture |-> picture8x8_single]}

Orders == 0 .. NumOrders - 1

NoResult == [done |-> FALSE, val |-> {}]

\* is_solution has not returned its boolean yet
NoVerdict == [done |-> FALSE, val |-> FALSE]

Pending == [outcome |-> "pending", stars |-> {}]

\* solve(board): search(board, initial_state(board)) is advanced to its end
InitSearch(in, o) ==
    /\ square(in.picture)
    /\ board = make_board(in.S, in.picture, o)
    /\ ord = o
    /\ call = [op |-> "solve", cell |-> 0 - 1, pre |-> initial_state(board)]
    /\ sstack = <<SFrame(initial_state(board))>>
    /\ work = initial_state(board)
    /\ pstack = <<>>
    /\ ret = NoRet
    /\ yielded = <<>>
    /\ status = "running"
    /\ solved = Pending
    /\ result = NoResult

Init == \E in \in Inputs, o \in Orders : InitSearch(in, o)

Next == Propagate \/ Search

Spec == Init /\ [][Next]_vars

\* the interpreter always executes the next statement of a running program
SpecFair == Spec /\ WF_vars(Next)

(***************************************************************************)
(* A deep search: a board of side DeepN with DeepS stars per unit whose    *)
(* boxes are its columns, searched with ascending iteration until the      *)
(* nested generators outnumber the units of the board by more than         *)
(* MaxExcess.                                                              *)
(***************************************************************************)
DeepN == 18

DeepS == 4

MaxExcess == 1

DeepPicture == [i \in 1 .. DeepN * DeepN |-> ((i - 1) % DeepN) + 1]

InitDeep == Init \/ InitSearch([S |-> DeepS, picture |-> DeepPicture], 0)

\* the nesting of search is within the part of the run that is explored
DepthCapped == Len(sstack) <= Len(board.units) + 1 + MaxExcess

NextDeep == DepthCapped /\ Next

SpecDeep == InitDeep /\ [][NextDeep]_vars

(***************************************************************************)
(* Direct calls: put_star, put_blank, neighbors and is_solution applied to *)
(* arguments drawn from bounded sets.                                      *)
(***************************************************************************)
\* a picture of side N with a single box
PlainPicture(N) == [i \in 1 .. N * N |-> 1]

\* the states of board b with at most MaxResolved resolved cells: stars and
\* unknowns are disjoint, the other cells are confirmed blanks
StatesOf(b) ==
  { [units    |-> initial_state(b).units,
     stars    |-> st,
     unknowns |-> cells_of(b) \ r,
     ref      |-> NewContainers(0)] :
      <<r, st>> \in { p \in (SUBSET cells_of(b)) \X (SUBSET cells_of(b)) :
                        /\ Cardinality(p[1]) <= MaxResolved
                        /\ p[2] \subseteq p[1] } }

StarSetsOf(b) == {P \in SUBSET cells_of(b) : Cardinality(P) <= MaxStars}

SideOf(in) == side_of(Len(strip(in.picture)))

InitIdle ==
  /\ ord = 0
  /\ sstack = <<>>
  /\ yielded = <<>>
  /\ status = "idle"
  /\ solved = Pending
  /\ ret = NoRet

\* put_star(cell, board, state) or put_blank(cell, board, state)
InitPut ==
  \E in \in Inputs, fn \in {"put_star", "put_blank"} :
    /\ SideOf(in) \in 2 .. 3
    /\ in.S >= 1
    /\ board = make_board(in.S, in.picture, 0)
    /\ \E state \in StatesOf(board), cell \in cells_of(board) :
         /\ call = [op |-> fn, cell |-> cell, pre |-> state]
         /\ work = state
         /\ pstack = <<Frame(fn, cell)>>
    /\ result = NoResult
    /\ InitIdle

\* neighbors(cell, N)
InitNeighbors ==
  \E N \in 1 .. MaxN :
    /\ board = make_board(1, PlainPicture(N), 0)
    /\ \E cell \in cells_of(board) :
         call = [op |-> "neighbors", cell |-> cell, pre |-> initial_state(board)]
    /\ work = initial_state(board)
    /\ pstack = <<>>
    /\ result = NoResult
    /\ InitIdle

\* is_solution(board, stars)
InitIsSolution ==
  \E in \in Inputs :
    /\ SideOf(in) <= 4
    /\ board = make_board(in.S, in.picture, 0)
    /\ \E P \in StarSetsOf(board) :
         call = [op |-> "is_solution", cell |-> 0 - 1,
                 pre |-> [initial_state(board) EXCEPT !.stars = P]]
    /\ work = initial_state(board)
    /\ pstack = <<>>
    /\ result = NoVerdict
    /\ InitIdle

InitCall == InitPut \/ InitNeighbors \/ InitIsSolution

ApplyNeighbors ==
  /\ call.op = "neighbors"
  /\ ~ result.done
  /\ result' = [done |-> TRUE, val |-> neighbors(call.cell, board.N)]
  /\ UNCHANGED <<call, board, ord, sstack, work, pstack, ret, yielded, status, solved>>

ApplyIsSolution ==
  /\ call.op = "is_solution"
  /\ ~ result.done
  /\ result' = [done |-> TRUE, val |-> is_solution(board, call.pre.stars)]
  /\ UNCHANGED <<call, board, ord, sstack, work, pstack, ret, yielded, status, solved>>

NextCall == Propagate \/ ApplyNeighbors \/ ApplyIsSolution

SpecCall == InitCall /\ [][NextCall]_vars

\* the interpreter always executes the next statement of a running call
SpecCallFair == SpecCall /\ WF_vars(NextCall)

(***************************************************************************)
(* The rules of the puzzle, stated on rows and columns and independently   *)
(* of the solver: the vocabulary of the properties below.                  *)
(***************************************************************************)
Abs(x) == IF x < 0 THEN 0 - x ELSE x

\* two distinct cells whose rows and whose columns differ by at most 1
Adjacent(N, c1, c2) ==
  /\ c1 # c2
  /\ Abs((c1 \div N) - (c2 \div N)) <= 1
  /\ Abs((c1 % N) - (c2 % N)) <= 1

NoTwoAdjacent(N, P) == \A c1 \in P : \A c2 \in P : ~ Adjacent(N, c1, c2)

\* every unit holds exactly S stars of P and no two stars of P touch
ValidPlacement(b, P) ==
  /\ \A k \in 1 .. Len(b.units) : Cardinality(P \cap b.units[k]) = b.S
  /\ NoTwoAdjacent(b.N, P)

RowCells(b, r) == {b.N * r + c : c \in 0 .. b.N - 1}

ColCells(b, c) == {b.N * r + c : r \in 0 .. b.N - 1}

\* the ways to put S stars that do not touch in row r
RowChoices(b, r) ==
  {q \in SUBSET RowCells(b, r) : Cardinality(q) = b.S /\ NoTwoAdjacent(b.N, q)}

\* the placements of S stars in each of the rows 0 .. r-1 in which no two
\* stars touch and no column holds more than S stars
RECURSIVE PlacementsUpTo(_, _)
PlacementsUpTo(b, r) ==
  IF r = 0 THEN {{}}
  ELSE { x[1] \cup x[2] :
           x \in { y \in PlacementsUpTo(b, r - 1) \X RowChoices(b, r - 1) :
                     /\ \A c1 \in y[1] : \A c2 \in y[2] : ~ Adjacent(b.N, c1, c2)
                     /\ \A c \in y[2] :
                          Cardinality(y[1] \cap ColCells(b, c % b.N)) < b.S } }

\* all valid placements of the board (each has S stars in every row)
ValidPlacements(b) == {P \in PlacementsUpTo(b, b.N) : ValidPlacement(b, P)}

Yields == {yielded[i] : i \in 1 .. Len(yielded)}

SearchOver == status \in {"exhausted", "KeyError"}

(***************************************************************************)
(* Properties of solve / search (specification Spec).                      *)
(***************************************************************************)
\* C1 (soundness): every state that search yields is a solution:
\* is_solution holds of its stars, that is, every unit of the board holds
\* exactly S of them and no two of them are neighbors.
C1_Soundness ==
  \A i \in 1 .. Len(yielded) :
    /\ is_solution(board, yielded[i])
    /\ ValidPlacement(board, yielded[i])

\* a state has been yielded on a board with two stars per unit
C1_Witness == Len(yielded) > 0 /\ board.S = 2 /\ Cardinality(yielded[1]) = 16

\* C2 (completeness): on a board with S >= 1, once search is over every
\* valid placement has been yielded; when there is exactly one, solve has
\* returned it.
C2_Completeness ==
  (SearchOver /\ board.S >= 1) =>
    /\ \A P \in ValidPlacements(board) : P \in Yields
    /\ Cardinality(ValidPlacements(board)) = 1 =>
         (solved.outcome = "returned" /\ solved.stars \in ValidPlacements(board))

\* search is over on a board with S >= 1 that has two valid placements
C2_Witness ==
  /\ SearchOver
  /\ board.S >= 1
  /\ Cardinality(ValidPlacements(board)) = 2
  /\ Cardinality(Yields) = 2

\* the well-formedness check of the specification document: search yields
\* a first result and then no second one
is_well_formed == status = "exhausted" /\ Len(yielded) = 1

\* C3 (well-formedness detection): on a board with S >= 1 the check is true
\* when the board has exactly one valid placement and false when it has two
\* or more.
C3_WellFormedDetection ==
  (SearchOver /\ board.S >= 1) =>
    /\ Cardinality(ValidPlacements(board)) = 1 => is_well_formed
    /\ Cardinality(ValidPlacements(board)) >= 2 => ~ is_well_formed

IsBoard5x5 == board.pic = strip(picture5x5) /\ board.S = 1

\* C4 as claimed: board5x5 has exactly one valid placement, solve returns
\* it and the well-formedness check is true.
C4_Original ==
  (IsBoard5x5 /\ SearchOver) =>
    /\ Cardinality(ValidPlacements(board)) = 1
    /\ solved.outcome = "returned"
    /\ solved.stars \in ValidPlacements(board)
    /\ is_well_formed

\* C4 (amended): board5x5 has exactly two valid placements,
\* {1, 9, 12, 15, 23} and {4, 6, 13, 15, 22}; search yields each of them
\* once, solve returns one of them, and the well-formedness check is false.
C4_TwoPlacements ==
  (IsBoard5x5 /\ SearchOver) =>
    /\ ValidPlacements(board) = {{1, 9, 12, 15, 23}, {4, 6, 13, 15, 22}}
    /\ Yields = ValidPlacements(board)
    /\ Len(yielded) = 2
    /\ solved.outcome = "returned"
    /\ solved.stars \in ValidPlacements(board)
    /\ ~ is_well_formed

\* the search of board5x5 is over with two states yielded
C4_Witness == IsBoard5x5 /\ SearchOver /\ Len(yielded) = 2

Unsatisfiable == status = "exhausted" /\ yielded = <<>>

\* C5 as claimed: on an unsatisfiable board solve returns None, a normal
\* result.
C5_Original == Unsatisfiable => solved.outcome = "None"

\* C5 (amended): on an unsatisfiable board solve does not return: next()
\* raises StopIteration; and solve ends so only on such a board.
C5_Raises ==
  /\ Unsatisfiable => solved.outcome = "StopIteration"
  /\ solved.outcome = "StopIteration" => Unsatisfiable

\* solve has raised on a 4x4 board with one star per unit
C5_Witness ==
  /\ Unsatisfiable
  /\ solved.outcome = "StopIteration"
  /\ board.N = 4
  /\ board.S = 1

(***************************************************************************)
(* Properties of propagation.                                              *)
(***************************************************************************)
\* a direct call of put_star or put_blank has returned (or raised)
CallOver ==
  /\ call.op \in {"put_star", "put_blank"}
  /\ pstack = <<>>
  /\ ret.val # "none"

\* C6 (specification SpecCall): put_star and put_blank end with the state
\* or None and never with an exception, whatever the cell and the state,
\* a confirmed-blank cell included.
C6_NoException == ret.val # "KeyError"

ConfirmedBlank(state, cell) == cell \notin state.stars /\ cell \notin state.unknowns

QuotaOK(b, state, cell) ==
  \A k \in 1 .. Len(units_for(b, cell)) :
    LET unit == units_for(b, cell)[k] IN
      /\ count_stars(unit, state) <= b.S
      /\ count_stars(unit, state) + Cardinality(unit \cap state.unknowns) >= b.S

\* C8 as claimed (specification Spec): whenever put_blank returns success
\* during a search, every unit of its cell holds at most S stars and at
\* least S stars and unknowns.
C8_Original ==
  (call.op = "solve" /\ ret.fn = "put_blank" /\ ret.val = "state") =>
    QuotaOK(board, work, ret.cell)

\* C8 (amended, specification Spec): the same, for the calls of put_blank
\* that found their cell unknown and removed it (the return of line 220);
\* a call on an already resolved cell returns success without any test.
C8_Quota ==
  (call.op = "solve" /\ ret.fn = "put_blank" /\ ret.val = "state" /\ ret.line = 220) =>
    QuotaOK(board, work, ret.cell)

\* put_blank returns from line 220 after a forced star, in a search
C8_Witness ==
  /\ call.op = "solve"
  /\ ret.fn = "put_blank"
  /\ ret.line = 220
  /\ \E k \in 1 .. Len(units_for(board, ret.cell)) :
       /\ count_stars(units_for(board, ret.cell)[k], work) = board.S
       /\ board.S >= 1
       /\ units_for(board, ret.cell)[k] \cap work.unknowns = {}

(***************************************************************************)
(* Properties of neighbors and is_solution (specification SpecCall).       *)
(***************************************************************************)
\* C9: neighbors(cell, N) is the set of the cells other than cell whose row
\* and whose column differ from cell's by at most 1: no wraparound, never
\* the cell itself, only cells of the board; neighbors(0, 5) = {1, 5, 6}.
C9_Neighbors ==
  (call.op = "neighbors" /\ result.done) =>
    /\ result.val = {c \in cells_of(board) : Adjacent(board.N, call.cell, c)}
    /\ (board.N = 5 /\ call.cell = 0) => result.val = {1, 5, 6}

\* neighbors(0, 5) has returned
C9_Witness ==
  /\ call.op = "neighbors"
  /\ result.done
  /\ board.N = 5
  /\ call.cell = 0
  /\ result.val = {1, 5, 6}

\* C10: is_solution(board, stars) is true if and only if every unit of the
\* board holds exactly S cells of stars and no two cells of stars are
\* neighbors.
C10_IsSolution ==
  (call.op = "is_solution" /\ result.done) =>
    (result.val <=> ValidPlacement(board, call.pre.stars))

\* is_solution has returned true of a placement on a 4x4 board
C10_Witness ==
  /\ call.op = "is_solution"
  /\ result.done
  /\ board.N = 4
  /\ board.S = 1
  /\ result.val = TRUE

(***************************************************************************)
(* Properties of the board (specification Spec).                           *)
(***************************************************************************)
\* the distinct characters of the picture
Labels(b) == {b.pic[i] : i \in 1 .. Len(b.pic)}

\* board.units is cols + rows + boxes
ColUnits(b) == SubSeq(b.units, 1, b.N)

RowUnits(b) == SubSeq(b.units, b.N + 1, 2 * b.N)

BoxUnits(b) == SubSeq(b.units, 2 * b.N + 1, Len(b.units))

\* the number of units of the list that hold cell
Holding(units, cell) == Cardinality({k \in 1 .. Len(units) : cell \in units[k]})

\* every cell is in one column, one row and one box, and has three units
ThreeUnitsPerCell(b) ==
  /\ \A k \in 1 .. b.N : ColUnits(b)[k] = ColCells(b, k - 1)
  /\ \A k \in 1 .. b.N : RowUnits(b)[k] = RowCells(b, k - 1)
  /\ \A cell \in cells_of(b) :
       /\ Holding(ColUnits(b), cell) = 1
       /\ Holding(RowUnits(b), cell) = 1
       /\ Holding(BoxUnits(b), cell) = 1
       /\ Len(units_for(b, cell)) = 3

\* C11 as claimed: every board built by make_board has every cell in
\* exactly one column, one row and one box, three units per cell, and 3N
\* units.
C11_Original == ThreeUnitsPerCell(board) /\ Len(board.units) = 3 * board.N

\* C11 (amended): every board built by make_board has every cell in exactly
\* one column, one row and one box and three units per cell; it has one box
\* per distinct character of the picture, hence 2N + (number of distinct
\* characters) units, which is 3N exactly when the picture has N distinct
\* characters.
C11_BoardInvariant ==
  /\ ThreeUnitsPerCell(board)
  /\ Len(board.units) = 2 * board.N + Cardinality(Labels(board))
  /\ Len(board.units) = 3 * board.N <=> Cardinality(Labels(board)) = board.N

\* a 4x4 board built from a picture of five characters: 13 units
C11_Witness ==
  /\ board.N = 4
  /\ Cardinality(Labels(board)) = 5
  /\ Len(board.units) = 13
  /\ \A cell \in cells_of(board) : Len(units_for(board, cell)) = 3

\* the number of distinct characters of the picture is not N
Malformed(b) == Cardinality(Labels(b)) # b.N

\* C12: make_board builds a board from a square picture whose number of
\* distinct characters differs from N without any error, and with S >= 1
\* the search of such a board yields no state: it ends exhausted, with no
\* exception other than the StopIteration of next() in solve.
C12_MalformedBoxes ==
  (Malformed(board) /\ board.S >= 1) =>
    /\ square(board.pic)
    /\ yielded = <<>>
    /\ status \in {"running", "exhausted"}
    /\ SearchOver => solved.outcome = "StopIteration"

\* the search of the 4x4 board with three boxes and S = 1 is over
C12_Witness ==
  /\ Malformed(board)
  /\ board.N = 4
  /\ Cardinality(Labels(board)) = 3
  /\ board.S = 1
  /\ SearchOver
  /\ yielded = <<>>

(***************************************************************************)
(* Properties of the states of a search (specification Spec).              *)
(***************************************************************************)
\* C13 as claimed: on a board built with S = 0, search yields no state.
C13_Original == (board.S = 0 /\ SearchOver) => yielded = <<>>

\* C13 (amended): a board built with S = 0 is not rejected, and its search
\* does not fail: every unit holds 0 = S stars from the start, so search
\* discards them all and yields one state, the initial one with no star,
\* without a guess; is_solution accepts it and solve returns the empty set.
C13_ZeroStars ==
  board.S = 0 =>
    /\ pstack = <<>>
    /\ Len(sstack) <= 1
    /\ SearchOver =>
         /\ status = "exhausted"
         /\ yielded = <<{}>>
         /\ is_solution(board, {})
         /\ solved = [outcome |-> "returned", stars |-> {}]

\* the search of a 4x4 board with S = 0 is over
C13_Witness ==
  /\ board.S = 0
  /\ board.N = 4
  /\ SearchOver
  /\ Len(yielded) = 1

\* some unit of the board has fewer than S cells
SmallUnit(b) == \E k \in 1 .. Len(b.units) : Cardinality(b.units[k]) < b.S

\* C14 (specification SpecFair): on a board with a unit of fewer than S
\* cells, search never yields a state and comes to its end.
C14_SmallUnit ==
  /\ [](SmallUnit(board) => yielded = <<>>)
  /\ SmallUnit(board) ~> (status = "exhausted" /\ yielded = <<>>)

\* the search of the 8x8 board with S = 2 and a box of one cell is over
C14_Witness ==
  /\ SmallUnit(board)
  /\ board.N = 8
  /\ board.S = 2
  /\ status = "exhausted"
  /\ yielded = <<>>

\* search is waiting for the put_star of a guess (line 272) to return
Guessing ==
  /\ call.op = "solve"
  /\ sstack # <<>>
  /\ STop.pc = "guess"
  /\ pstack # <<>>

\* C15: the for loop of search guesses the candidates of the head unit in
\* ascending cell index: while the guess of a cell is under way, every
\* candidate of the same loop that is still to be tried is a larger cell.
C15_AscendingOrder ==
  Guessing => \A d \in STop.cands : pstack[1].cell < d

IsSuffix(s, t) ==
  /\ Len(s) <= Len(t)
  /\ s = SubSeq(t, Len(t) - Len(s) + 1, Len(t))

\* the number of times unit u occurs in the list
Occurrences(units, u) == Cardinality({k \in 1 .. Len(units) : units[k] = u})

\* the list holds the units of the board, each as often, by ascending size
SortedUnitsOf(b, units) ==
  /\ Len(units) = Len(b.units)
  /\ \A k \in 1 .. Len(units) :
       Occurrences(units, units[k]) = Occurrences(b.units, units[k])
  /\ \A j \in 1 .. Len(units) : \A k \in j .. Len(units) :
       Cardinality(units[j]) <= Cardinality(units[k])

\* the State objects that exist: one per generator, and the guess state
\* that propagation works on
LiveStates == {sstack[i].state : i \in 1 .. Len(sstack)} \cup {work}

\* the pending units of every state are a suffix of the sorted list of
\* the initial state, so their head is one of their smallest units
PendingSorted ==
  /\ SortedUnitsOf(board, call.pre.units)
  /\ \A st \in LiveStates :
       /\ IsSuffix(st.units, call.pre.units)
       /\ \A k \in 1 .. Len(st.units) :
            Cardinality(st.units[1]) <= Cardinality(st.units[k])

\* a step changes the pending units of a state only by removing the head
\* of the innermost generator's list, when it holds exactly S stars; a new
\* guess state starts with the list of the state it copies, and a new
\* generator with the list of its guess state
PendingStep ==
  /\ \A i \in 1 .. Len(sstack) :
       i <= Len(sstack') =>
         \/ sstack'[i].state.units = sstack[i].state.units
         \/ /\ i = Len(sstack)
            /\ sstack[i].state.units # <<>>
            /\ sstack'[i].state.units = Tail(sstack[i].state.units)
            /\ count_stars(Head(sstack[i].state.units), sstack[i].state) = board.S
  /\ Len(sstack') > Len(sstack) => sstack'[Len(sstack')].state.units = work.units
  /\ \/ work'.units = work.units
     \/ sstack' # <<>> /\ work'.units = sstack'[Len(sstack')].state.units

\* C16: during a search, the pending units of every state are a suffix of
\* the units of the board sorted ascending by size; units leave a list
\* only at its front, removed by search when the head holds exactly S
\* stars, and are never reordered, inserted or removed elsewhere; the head
\* is always a smallest pending unit.
C16_PendingOrder == []PendingSorted /\ [][PendingStep]_vars

\* a generator three levels down has discarded units on the 8x8 board
C16_Witness ==
  /\ board.N = 8
  /\ Len(sstack) >= 3
  /\ STop.state.units # <<>>
  /\ STop.pc = "loop"
  /\ Len(STop.state.units) < Len(sstack[1].state.units)

\* the units that search has removed from the pending list of state st
Dropped(st) == SubSeq(call.pre.units, 1, Len(call.pre.units) - Len(st.units))

\* C17: in every state that search has recursed into, the state it yields
\* included, every unit removed from the pending list holds exactly S
\* stars of the state.
C17_DroppedFilled ==
  \A i \in 1 .. Len(sstack) :
    \A k \in 1 .. Len(Dropped(sstack[i].state)) :
      count_stars(Dropped(sstack[i].state)[k], sstack[i].state) = board.S

\* a generator below the root is guessing on the 8x8 board, after it and
\* its parent have removed units
C17_Witness ==
  /\ board.N = 8
  /\ Len(sstack) >= 4
  /\ STop.pc = "guess"
  /\ Len(Dropped(sstack[Len(sstack) - 1].state)) >= 1
  /\ Len(Dropped(STop.state)) > Len(Dropped(sstack[Len(sstack) - 1].state))

\* the unit holds at most S stars
AtMostS(b, st, unit) == count_stars(unit, st) <= b.S

\* the stars and the unknown cells of the unit are at least S
CanReachS(b, st, unit) ==
  count_stars(unit, st) + Cardinality(unit \cap st.unknowns) >= b.S

\* propagation has just returned the guess state to search
GuessSucceeded ==
  /\ call.op = "solve"
  /\ pstack = <<>>
  /\ ret.val = "state"

\* the states that search has recursed into, and the guess state when
\* propagation has returned success
Propagated ==
  {sstack[i].state : i \in 2 .. Len(sstack)}
    \cup (IF GuessSucceeded THEN {work} ELSE {})

\* C18 as claimed: on a board with S >= 1 and no empty unit, every pending
\* unit of every state that propagation has returned holds at most S stars
\* and has at least S stars and unknowns.
C18_Original ==
  (board.S >= 1 /\ \A k \in 1 .. Len(board.units) : board.units[k] # {}) =>
    \A st \in Propagated : \A k \in 1 .. Len(st.units) :
      /\ AtMostS(board, st, st.units[k])
      /\ CanReachS(board, st, st.units[k])

\* C18 (amended): on a board with S >= 1, every pending unit of every
\* state that propagation has returned holds at most S stars, and every
\* pending unit of at least S cells has at least S stars and unknowns; so
\* both bounds hold of every pending unit on a board whose units all have
\* at least S cells.  A unit of fewer than S cells is never tested.
C18_PendingBounds ==
  board.S >= 1 =>
    \A st \in Propagated : \A k \in 1 .. Len(st.units) :
      /\ AtMostS(board, st, st.units[k])
      /\ Cardinality(st.units[k]) >= board.S => CanReachS(board, st, st.units[k])

\* on the 8x8 board with S = 2, a state three guesses down has a pending
\* unit with one star that can still reach two
C18_Witness ==
  /\ board.N = 8
  /\ board.S = 2
  /\ Len(sstack) >= 4
  /\ \E k \in 1 .. Len(STop.state.units) :
       /\ count_stars(STop.state.units[k], STop.state) = 1
       /\ STop.state.units[k] \cap STop.state.unknowns # {}

\* a generator that has left its while loop keeps its State as it is: no
\* step of a guess or of the generators below changes its contents
CurrentKept ==
  \A i \in 1 .. Len(sstack) :
    (i <= Len(sstack') /\ sstack[i].pc # "start") =>
      sstack'[i].state = sstack[i].state

\* a guess starts on a State with the contents of the current one, in
\* containers that no generator holds
GuessOnCopy ==
  (sstack # <<>> /\ STop.pc = "loop" /\ Len(sstack') = Len(sstack)
     /\ sstack'[Len(sstack)].pc = "guess") =>
    /\ work'.units = STop.state.units
    /\ work'.stars = STop.state.stars
    /\ work'.unknowns = STop.state.unknowns
    /\ {work'.ref.units, work'.ref.stars, work'.ref.unknowns} \cap LiveAddresses = {}

\* C19: every guess of search runs put_star on a fresh copy of the current
\* state: the stars, unknowns and pending units of the current state are
\* not changed by the guess nor by anything searched below it, whether the
\* guess succeeds or fails, so every candidate is tried from the same
\* pre-guess state.
C19_CloneOnGuess == [][CurrentKept /\ GuessOnCopy]_vars

\* a second candidate is being tried, one level down, and propagation has
\* changed the copy
C19_Witness ==
  /\ Guessing
  /\ Len(sstack) >= 2
  /\ Cardinality(candidates(STop.state) \ STop.cands) >= 2
  /\ work.stars # STop.state.stars
  /\ work.unknowns # STop.state.unknowns
  /\ board.S >= 1

\* the cells known to hold no star
Blanks(b, st) == cells_of(b) \ (st.stars \cup st.unknowns)

\* stars and unknowns are disjoint sets of cells of the board
StarsApartFromUnknowns ==
  \A st \in LiveStates :
    /\ st.stars \cap st.unknowns = {}
    /\ st.stars \subseteq cells_of(board)
    /\ st.unknowns \subseteq cells_of(board)

\* from contents old to contents new of one State: no cell comes back to
\* the unknowns, no star is lost and no blank becomes a star
Resolving(old, new) ==
  /\ new.unknowns \subseteq old.unknowns
  /\ old.stars \subseteq new.stars
  /\ Blanks(board, old) \subseteq Blanks(board, new)

\* the step is the call of line 272, which makes a new guess state
NewGuess ==
  /\ sstack # <<>>
  /\ STop.pc = "loop"
  /\ Len(sstack') = Len(sstack)
  /\ sstack'[Len(sstack)].pc = "guess"

\* every State that outlives the step resolves, and the new guess state
\* of a guess starts from the sets of the current state
ResolvingStep ==
  /\ \A i \in 1 .. Len(sstack) :
       i <= Len(sstack') => Resolving(sstack[i].state, sstack'[i].state)
  /\ IF NewGuess THEN Resolving(STop.state, work') ELSE Resolving(work, work')

\* C20: in every state of a search, stars and unknowns are disjoint sets
\* of cells of the board; within one State the unknowns only shrink and
\* the stars only grow: a star or a confirmed blank never becomes unknown
\* again and a confirmed blank never becomes a star.
C20_StarsUnknowns == []StarsApartFromUnknowns /\ [][ResolvingStep]_vars

\* propagation has returned a guess state with stars, blanks and unknowns
\* on the 8x8 board, three guesses down
C20_Witness ==
  /\ GuessSucceeded
  /\ board.N = 8
  /\ Len(sstack) >= 3
  /\ Cardinality(work.stars) >= 3
  /\ Blanks(board, work) # {}
  /\ work.unknowns # {}

(***************************************************************************)
(* Properties of the calls of put_star and put_blank, the nested ones      *)
(* included.                                                               *)
(***************************************************************************)
\* a call of fn is at its first statement
Entering(fn) == Running(fn, "enter") /\ ret.val = "none"

\* the innermost call returns val from `line` in this step
Returns(val, line) ==
  /\ pstack' = SubSeq(pstack, 1, Len(pstack) - 1)
  /\ ret' = [fn |-> Top.fn, cell |-> Top.cell, val |-> val, line |-> line]

\* some unit of cell holds S stars or more
Saturated(b, st, cell) ==
  \E k \in 1 .. Len(b.units) : cell \in b.units[k] /\ count_stars(b.units[k], st) >= b.S

\* no unit of the board holds more than S stars
NoUnitOver(b, st) == \A k \in 1 .. Len(b.units) : count_stars(b.units[k], st) <= b.S

\* a call of put_star on an unknown cell with a saturated unit returns None
\* from line 200 in its first step, with the cell moved to the stars
OverSaturationStep ==
  (Entering("put_star") /\ Top.cell \in work.unknowns
     /\ Saturated(board, work, Top.cell)) =>
    /\ Returns("None", 200)
    /\ work'.stars = work.stars \cup {Top.cell}
    /\ work'.unknowns = work.unknowns \ {Top.cell}
    /\ work'.units = work.units

\* C21 (specification SpecCall): put_star on an unknown cell one of whose
\* units already holds S stars fails at once: it returns None from the
\* quota test, and the only change of the state is that the cell has moved
\* from unknowns to stars; and a call that starts with no unit over S and
\* returns success leaves no unit over S.
C21_OverSaturation ==
  /\ [][OverSaturationStep]_vars
  /\ []((CallOver /\ ret.val = "state" /\ NoUnitOver(board, call.pre)) =>
          NoUnitOver(board, work))

\* a forced put_star, called by put_blank, has failed on a saturated unit
C21_Witness ==
  /\ call.op = "put_blank"
  /\ Len(pstack) >= 1
  /\ ret.fn = "put_star"
  /\ ret.line = 200
  /\ ret.val = "None"
  /\ ret.cell \in call.pre.unknowns
  /\ NoUnitOver(board, call.pre)

\* a neighbor of cell holds a star
NextToStar(b, st, cell) == \E c \in st.stars : Adjacent(b.N, cell, c)

\* put_star calls put_blank in this step
CallsPutBlank ==
  /\ pstack # <<>>
  /\ Top.fn = "put_star"
  /\ Len(pstack') = Len(pstack) + 1
  /\ pstack'[Len(pstack')].fn = "put_blank"

\* C22 (specification SpecCall): put_star on an unknown cell with a
\* neighbor in stars returns None, from the quota test or from the neighbor
\* loop; no call of put_star, direct or nested, returns the state from its
\* last line with a star next to its cell; and put_star never calls
\* put_blank on a neighbor that holds a star.
C22_AdjacencyRule ==
  /\ []((CallOver /\ call.op = "put_star" /\ call.cell \in call.pre.unknowns
           /\ NextToStar(board, call.pre, call.cell)) =>
          (ret.val = "None" /\ ret.line \in {200, 203}))
  /\ []((ret.fn = "put_star" /\ ret.val = "state" /\ ret.line = 204) =>
          ~ NextToStar(board, work, ret.cell))
  /\ [][CallsPutBlank => pstack'[Len(pstack')].cell \notin work.stars]_vars

\* put_star has failed in its neighbor loop on a cell next to a star, on a
\* board where two stars fit in every unit of the cell
C22_Witness ==
  /\ CallOver
  /\ call.op = "put_star"
  /\ call.cell \in call.pre.unknowns
  /\ NextToStar(board, call.pre, call.cell)
  /\ board.S = 2
  /\ ret.val = "None"
  /\ ret.line = 203

\* a call of put_star is in its neighbor loop (lines 201-203)
InNeighborLoop ==
  /\ pstack # <<>>
  /\ Top.fn = "put_star"
  /\ Top.pc \in {"loop", "wait"}

\* the innermost call returns None in this step
Fails ==
  /\ Len(pstack') = Len(pstack) - 1
  /\ ret'.val = "None"

\* the cells next to cell on the board
Around(b, cell) == {c \in cells_of(b) : Adjacent(b.N, cell, c)}

\* C23 as claimed (specification SpecCall): past the quota test, put_star
\* skips the neighbors that are stars and fails only when a put_blank that
\* it has called fails.
C23_Original ==
  [][(InNeighborLoop /\ Fails) => (ret.fn = "put_blank" /\ ret.val = "None")]_vars

\* put_star fails in its loop exactly when the neighbor it has come to
\* holds a star or the put_blank of a neighbor has returned None
LoopFailure ==
  InNeighborLoop =>
    (Fails <=>
       \/ Top.pc = "loop" /\ ret.val = "none" /\ Top.rem \cap work.stars # {}
            /\ First(Top.rem, ord) \in work.stars
       \/ Top.pc = "wait" /\ ret.fn = "put_blank" /\ ret.val = "None")

\* put_star calls put_blank only on neighbors of its cell without a star
BlanksNeighbors ==
  CallsPutBlank =>
    /\ pstack'[Len(pstack')].cell \in Around(board, Top.cell)
    /\ pstack'[Len(pstack')].cell \notin work.stars

\* C23 (amended, specification SpecCall): past the quota test, put_star
\* goes through the neighbors of its cell; it fails when it comes to a
\* neighbor that holds a star or when the put_blank of a neighbor fails,
\* and only then (a neighbor with a star is not skipped); it calls
\* put_blank only on neighbors without a star; and it returns the state
\* only when every neighbor has become a confirmed blank.
C23_NeighborLoop ==
  /\ [][LoopFailure /\ BlanksNeighbors]_vars
  /\ []((ret.fn = "put_star" /\ ret.val = "state" /\ ret.line = 204) =>
          Around(board, ret.cell) \subseteq Blanks(board, work))

\* a direct put_star has blanked three unknown neighbors and succeeded
C23_Witness ==
  /\ CallOver
  /\ call.op = "put_star"
  /\ ret.val = "state"
  /\ ret.line = 204
  /\ Cardinality(Around(board, call.cell) \cap call.pre.unknowns) >= 3
  /\ Around(board, call.cell) \subseteq Blanks(board, work)

\* no unit of cell has zero slack and an unknown cell
NoForcedLeft(b, st, cell) ==
  \A k \in 1 .. Len(b.units) :
    (cell \in b.units[k]
       /\ count_stars(b.units[k], st) + Cardinality(b.units[k] \cap st.unknowns) = b.S)
      => b.units[k] \cap st.unknowns = {}

\* C24 as claimed (specification Spec): whenever put_blank returns success
\* during a search, every unit of its cell whose stars and unknowns are
\* exactly S has no unknown cell left.
C24_Original ==
  (call.op = "solve" /\ ret.fn = "put_blank" /\ ret.val = "state") =>
    NoForcedLeft(board, work, ret.cell)

\* C24 (amended, specification Spec): the same, for the calls of put_blank
\* that found their cell unknown and went through its units (the return of
\* line 220); a call on a cell that is already resolved returns at once,
\* also while an outer put_blank has yet to force the cells of a unit.
C24_ForcedPlacement ==
  (call.op = "solve" /\ ret.fn = "put_blank" /\ ret.val = "state" /\ ret.line = 220) =>
    NoForcedLeft(board, work, ret.cell)

\* put_blank returns from line 220 in a search after it has forced a star:
\* a unit of its cell is full and the guess state has gained two stars
C24_Witness ==
  /\ call.op = "solve"
  /\ ret.fn = "put_blank"
  /\ ret.val = "state"
  /\ ret.line = 220
  /\ board.S >= 1
  /\ Cardinality(work.stars \ STop.state.stars) >= 2
  /\ \E k \in 1 .. Len(board.units) :
       /\ ret.cell \in board.units[k]
       /\ count_stars(board.units[k], work) = board.S
       /\ board.units[k] \cap work.unknowns = {}
       /\ board.units[k] \cap (work.stars \ STop.state.stars) # {}

\* a call of put_star or put_blank is under way
Propagating == pstack # <<>>

\* the call at its first statement gets past its guard
PastGuard ==
  \/ Entering("put_star") /\ Top.cell \notin work.stars
  \/ Entering("put_blank") /\ Top.cell \in work.unknowns

\* a call that gets past its guard removes its cell from the unknowns, and
\* no other step removes a cell
RemovesOne ==
  /\ PastGuard => work'.unknowns = work.unknowns \ {Top.cell}
  /\ (PastGuard /\ Top.cell \in work.unknowns) =>
       Cardinality(work'.unknowns) = Cardinality(work.unknowns) - 1
  /\ (Propagating /\ ~ PastGuard) => work'.unknowns = work.unknowns

\* the nested calls are at most one more than the cells that the direct
\* call has resolved so far, hence at most N*N + 1
DepthBounded ==
  (call.op \in {"put_star", "put_blank"}) =>
    /\ Len(pstack) <= Cardinality(call.pre.unknowns \ work.unknowns) + 1
    /\ Len(pstack) <= board.N * board.N + 1

\* C25 (specification SpecCallFair): every direct call of put_star or
\* put_blank returns, and with it every call nested in it; every call that
\* gets past its guard removes one cell from the unknowns; and the depth
\* of the recursion is at most N*N + 1.
C25_PropagationTerminates ==
  /\ Propagating ~> ~ Propagating
  /\ []DepthBounded
  /\ [][RemovesOne]_vars

\* a recursion six calls deep on a 3x3 board
C25_Witness ==
  /\ call.op \in {"put_star", "put_blank"}
  /\ board.N = 3
  /\ Len(pstack) >= 6
  /\ Cardinality(call.pre.unknowns \ work.unknowns) >= 5

(***************************************************************************)
(* Properties of the whole search.                                         *)
(***************************************************************************)
\* the state of every generator has strictly more stars than the state of
\* the generator that called it
MoreStarsThanParent ==
  \A i \in 2 .. Len(sstack) :
    /\ sstack[i - 1].state.stars \subseteq sstack[i].state.stars
    /\ sstack[i - 1].state.stars # sstack[i].state.stars

\* C26 (specification SpecFair): on every board, search advanced again and
\* again comes to its end, after the finitely many yields made so far; and
\* every recursive call of search works on a state with strictly more
\* stars than the state of its caller.
C26_SearchFinite ==
  /\ <>(status = "exhausted" /\ sstack = <<>> /\ pstack = <<>>)
  /\ []MoreStarsThanParent

\* the search of the 8x8 board is over after several yields
C26_Witness ==
  /\ status = "exhausted"
  /\ board.N = 8
  /\ Len(yielded) >= 2

\* the guesses made on the branch under search: the nested calls of search
\* below the first
Guesses == IF sstack = <<>> THEN 0 ELSE Len(sstack) - 1

\* C27 as claimed (specification SpecDeep): with S >= 1, the guesses on one
\* branch never exceed the number of units of the board.
C27_Original == board.S >= 1 => Guesses <= Len(board.units)

\* C27 (specification SpecDeep): every guess on the branch under search has
\* added a star, so the guesses never exceed the stars of the State under
\* search, which are at most S in every column; they stay within the number
\* of units of the board while S <= 3, and not beyond.
C27_SearchDepth ==
  sstack # <<>> =>
    /\ Guesses <= Cardinality(STop.state.stars)
    /\ Cardinality(STop.state.stars) <= board.S * board.N
    /\ board.S <= 3 => Guesses <= Len(board.units)

C27_Witness ==
  /\ board.S = DeepS
  /\ Guesses > Len(board.units)
  /\ Cardinality(STop.state.stars) >= Guesses

\* C28 (specification Spec): in a search from initial_state(board), every
\* cell put_star is called on, by a guess or by a forced placement, is then
\* in unknowns or already in stars, and the removal at line 196 never fails.
C28_NeverOnBlank ==
  /\ Entering("put_star") => Top.cell \in work.unknowns \cup work.stars
  /\ ret.val # "KeyError"
  /\ status # "KeyError"

\* a forced placement fails after it has made another cell of the list of
\* forced cells a confirmed blank: the list is left there
C28_Witness ==
  /\ Running("put_blank", "wait")
  /\ ret.fn = "put_star"
  /\ ret.val = "None"
  /\ \E c \in Top.rem \ {ret.cell} : c \notin work.unknowns \cup work.stars

\* C29 (specification Spec): on a board with S = 1 no two states that search
\* yields have the same stars, and once search is over the states yielded
\* are as many as the valid placements of the board.
C29_OnceEach ==
  board.S = 1 =>
    /\ \A i \in 1 .. Len(yielded) : \A j \in 1 .. Len(yielded) :
         yielded[i] = yielded[j] => i = j
    /\ SearchOver => Len(yielded) = Cardinality(ValidPlacements(board))

\* search is over on a board with S = 1 after two yields, of different stars
C29_Witness ==
  /\ board.S = 1
  /\ status = "exhausted"
  /\ Len(yielded) = 2
  /\ yielded[1] # yielded[2]
  /\ Cardinality(ValidPlacements(board)) = 2

\* the board that make_board builds from the same S and picture when the
\* set of labels is iterated in ascending order
ReferenceBoard == make_board(board.S, board.pic, 0)

\* C30 (specification Spec): order independence.  The set of stars sets that
\* a search yields is a function of S and the picture alone: whatever the
\* order in which the candidates, the neighbors, the forced cells and the
\* labels of the boxes are iterated, it is the set of valid placements of
\* the board built in ascending order; only the order and the multiplicity
\* of the yields vary.
C30_OrderIndependence ==
  status = "exhausted" => Yields = ValidPlacements(ReferenceBoard)

\* the search of board5x5 in another order than ascending, with its boxes
\* in another order than those of the reference, is over: it has yielded
\* the two placements in the reverse of the ascending run's order
C30_Witness ==
  /\ status = "exhausted"
  /\ ord # 0
  /\ IsBoard5x5
  /\ board.units # ReferenceBoard.units
  /\ yielded = <<{4, 6, 13, 15, 22}, {1, 9, 12, 15, 23}>>

====
